---- MODULE Spec2Model ----
(***************************************************************************)
(* Model of pkg/golang/binary: Parser.Parse, getBuildID and readELF.       *)
(* A run is one call on one binary: the module-metadata read, the prefix   *)
(* sniff, the 32 KiB window read, the program-header walk, the note-record *)
(* walk, and the assembly of the library records.                          *)
(***************************************************************************)
EXTENDS Integers, Sequences, FiniteSets, TLC

(***************************************************************************)
(* Bounds of the model.                                                    *)
(***************************************************************************)
MaxSegs == 2
MaxRecs == 2
MaxDeps == 2
\* cap on the iterations of the record walk of one segment
MaxIters == MaxRecs + 2

(***************************************************************************)
(* Machine words.  uint32 and uint64 values are little-endian sequences of *)
(* 16-bit limbs (two and four of them), so that Go's wrap-around           *)
(* arithmetic is computed exactly.                                         *)
(***************************************************************************)
LimbBase == 2^16

RECURSIVE AddCarry(_, _, _)
AddCarry(a, b, c) ==
  IF a = <<>> THEN <<>>
  ELSE LET s == Head(a) + Head(b) + c
       IN  <<s % LimbBase>> \o AddCarry(Tail(a), Tail(b), s \div LimbBase)

\* a + b modulo 2^(16 * Len(a))
Add(a, b) == AddCarry(a, b, 0)

Compl(a) == [i \in 1..Len(a) |-> LimbBase - 1 - a[i]]

\* a - b modulo 2^(16 * Len(a))
Sub(a, b) == AddCarry(a, Compl(b), 1)

RECURSIVE BitAndNot(_, _, _)
BitAndNot(x, y, n) ==
  IF n = 0 THEN 0
  ELSE (IF x % 2 = 1 /\ y % 2 = 0 THEN 1 ELSE 0)
       + 2 * BitAndNot(x \div 2, y \div 2, n - 1)

\* Go's a &^ b
AndNot(a, b) == [i \in 1..Len(a) |-> BitAndNot(a[i], b[i], 16)]

RECURSIVE Less(_, _)
Less(a, b) ==
  IF a = <<>> THEN FALSE
  ELSE LET n == Len(a)
       IN  IF a[n] # b[n] THEN a[n] < b[n]
           ELSE Less(SubSeq(a, 1, n - 1), SubSeq(b, 1, n - 1))

Leq(a, b) == a = b \/ Less(a, b)

\* conversions of a number below 2^31
U32(n) == <<n % LimbBase, n \div LimbBase>>
U64(n) == <<n % LimbBase, n \div LimbBase, 0, 0>>
\* uint64(x) of a uint32 x
Ext64(w) == w \o <<0, 0>>
\* the number a word stands for, when it is below 2^30
IsSmall(w) == w[2] < 2^14 /\ \A i \in 3..Len(w) : w[i] = 0
Val(w) == w[1] + LimbBase * w[2]

(***************************************************************************)
(* Program constants.                                                      *)
(***************************************************************************)
readSize == 32 * 1024
elfPrefix == <<127, 69, 76, 70>>
elfGoNote == <<71, 111, 0, 0>>
elfGNUNote == <<71, 78, 85, 0>>
archMagic == <<33, 60, 97, 114, 99, 104, 62, 10>>
bigafMagic == <<60, 98, 105, 103, 97, 102, 62, 10>>
offsetToNoteData == 16
offsetToNoteFields == 12
sizeOfNoteNameAndValue == 4
elfGoBuildIDTag == 4
gnuBuildIDTag == 3
EI_CLASS == 4
EI_DATA == 5
ELFCLASS32 == 1
ELFCLASS64 == 2

ErrUnrecognizedExe == "unrecognized executable format"
ErrNonGoBinary == "non go binary"
errProgramNotSupported == "Program not supported"
errUnexpectedEOF == "unexpected EOF"
errEOF == "EOF"
errIO == "input/output error"
errBadELF == "bad ELF header"
NoErr == "nil"

(***************************************************************************)
(* Byte order: ef.ByteOrder.Uint32 and its inverse.                        *)
(***************************************************************************)
Uint32(b, order) ==
  IF order = "LE" THEN <<b[1] + 256 * b[2], b[3] + 256 * b[4]>>
                  ELSE <<b[4] + 256 * b[3], b[2] + 256 * b[1]>>

PutUint32(w, order) ==
  IF order = "LE"
  THEN <<w[1] % 256, w[1] \div 256, w[2] % 256, w[2] \div 256>>
  ELSE <<w[2] \div 256, w[2] % 256, w[1] \div 256, w[1] % 256>>

Zeros(n) == [i \in 1..n |-> 0]
Pad4(b) == b \o Zeros((4 - (Len(b) % 4)) % 4)

(***************************************************************************)
(* The input: a binary file.  A note segment is built from note records    *)
(* (declared name size, declared value size, tag, name bytes, value bytes) *)
(* encoded the way the walk of readELF decodes them: three 32-bit fields,  *)
(* then the name and the value, each padded to 4 bytes.                    *)
(***************************************************************************)
NoteLens == {0, 1, 3, 4, 5}

Rec(ns, vs, tag, name, val) ==
  [ns |-> ns, vs |-> vs, tag |-> tag, name |-> name, val |-> val]

\* a record whose declared sizes are the lengths of its name and value
Honest(name, val, tag) == Rec(U32(Len(name)), U32(Len(val)), tag, name, val)

\* the value of record j of segment i: every record has its own value
PosVal(i, j) == [k \in 1..(1 + ((2 * i + j) % 5)) |-> 16 * i + 4 * j + k]

Kind(k, n, v) == [k |-> k, n |-> n, v |-> v]
KGo == Kind("go", 0, 0)
KGnu == Kind("gnu", 0, 0)
OthKinds == {Kind("oth", n, v) : n \in NoteLens, v \in NoteLens}
\* a known name under the other producer's tag
NearKinds == {Kind("goTag3", 0, 0), Kind("gnuTag4", 0, 0)}
\* records whose declared sizes are not the sizes of what follows
AdvKinds == {Kind("wrapGo", 0, 0), Kind("wrapGnu", 0, 0), Kind("loop", 0, 0),
             Kind("big", 0, 0)}
HonestKinds == {KGo, KGnu} \cup OthKinds \cup NearKinds

MkRec(kind, i, j) ==
  CASE kind.k = "go"      -> Honest(elfGoNote, PosVal(i, j), elfGoBuildIDTag)
    [] kind.k = "gnu"     -> Honest(elfGNUNote, PosVal(i, j), gnuBuildIDTag)
    [] kind.k = "oth"     -> Honest([x \in 1..kind.n |-> 65], [x \in 1..kind.v |-> 66], 1)
    [] kind.k = "goTag3"  -> Honest(elfGoNote, PosVal(i, j), gnuBuildIDTag)
    [] kind.k = "gnuTag4" -> Honest(elfGNUNote, PosVal(i, j), elfGoBuildIDTag)
    [] kind.k = "wrapGo"  -> Rec(U32(4), <<65528, 65535>>, elfGoBuildIDTag, elfGoNote, <<>>)
    [] kind.k = "wrapGnu" -> Rec(U32(4), <<65528, 65535>>, gnuBuildIDTag, elfGNUNote, <<>>)
    [] kind.k = "loop"    -> Rec(<<65524, 65535>>, U32(0), 1, <<65, 65, 65, 65>>, <<>>)
    [] kind.k = "big"     -> Rec(U32(4), U32(1000), gnuBuildIDTag, elfGNUNote, PosVal(i, j))

EncRec(r, order) ==
  PutUint32(r.ns, order) \o PutUint32(r.vs, order) \o PutUint32(U32(r.tag), order)
    \o Pad4(r.name) \o Pad4(r.val)

\* the records laid out from file offset cur, each next record starting at
\* the next multiple of lay (lay <= 1: no padding between records)
RECURSIVE LaySeg(_, _, _, _)
LaySeg(recs, cur, lay, order) ==
  IF recs = <<>> THEN <<>>
  ELSE LET e   == EncRec(Head(recs), order)
           n   == cur + Len(e)
           pad == IF Tail(recs) = <<>> \/ lay <= 1 THEN 0
                  ELSE (lay - (n % lay)) % lay
       IN  e \o Zeros(pad) \o LaySeg(Tail(recs), n + pad, lay, order)

\* a segment to build: its type, its records, the alignment its program
\* header declares (a uint64) and the alignment its records are laid out with
SegSpec(type, kinds, align, lay) ==
  [type |-> type, kinds |-> kinds, align |-> align, lay |-> lay]

MkProg(spec, i, off, order) ==
  LET recs  == [j \in 1..Len(spec.kinds) |-> MkRec(spec.kinds[j], i, j)]
      bytes == LaySeg(recs, off, spec.lay, order)
  IN  [type |-> spec.type, off |-> off, filesz |-> Len(bytes),
       align |-> spec.align, bytes |-> bytes, recs |-> recs,
       wf |-> /\ \A j \in 1..Len(spec.kinds) : spec.kinds[j] \in HonestKinds
              /\ spec.align = U64(spec.lay)
              /\ spec.lay \in {0, 1, 4, 8}]

Round4(n) == ((n + 3) \div 4) * 4

RECURSIVE MkProgs(_, _, _, _)
MkProgs(specs, i, off, order) ==
  IF i > Len(specs) THEN <<>>
  ELSE LET p == MkProg(specs[i], i, off, order)
       IN  <<p>> \o MkProgs(specs, i + 1, Round4(off + p.filesz), order)

ElfHeaderSize == 64

\* where the first segment is put relative to the 32 KiB window
Places == {"low", "in", "edge", "straddle", "high"}

\* the file whose segments, laid out from offset 0 as progs0, are moved so
\* that the first one is at the place asked for (every place is a multiple
\* of 4 away, and of 8 for "low": the layout is kept)
PlaceFile(prefix, hdrOK, progs0, place) ==
  LET size1 == IF progs0 = <<>> THEN 0 ELSE progs0[1].filesz
      base  == CASE place = "low"      -> ElfHeaderSize
                 [] place = "in"       -> readSize - 4 - size1
                 [] place = "edge"     -> readSize - size1
                 [] place = "straddle" -> readSize - 8
                 [] place = "high"     -> 50000
      progs == [k \in 1..Len(progs0) |-> [progs0[k] EXCEPT !.off = @ + base]]
      end   == IF progs0 = <<>> THEN ElfHeaderSize
               ELSE base + progs0[Len(progs0)].off + progs0[Len(progs0)].filesz
  IN  [prefix |-> prefix, hdrOK |-> hdrOK, progs |-> progs, len |-> end]

\* the file of a description s: its 8-byte prefix, whether the rest of its
\* header decodes, its segments and their place
MkFile(s) ==
  PlaceFile(s.prefix, s.hdrOK,
            MkProgs(s.specs, 1, 0, IF s.prefix[EI_DATA + 1] = 2 THEN "BE" ELSE "LE"),
            s.place)

FileSpec(prefix, hdrOK, specs, place) ==
  [prefix |-> prefix, hdrOK |-> hdrOK, specs |-> specs, place |-> place]

ElfPrefix(class, data) == elfPrefix \o <<class, data, 1, 0>>
pePrefix == <<77, 90, 144, 0, 3, 0, 0, 0>>

SeqsOf(S, lo, hi) == UNION {[1..n -> S] : n \in lo..hi}

(***************************************************************************)
(* The module list of the module-metadata reader (buildinfo.Read).         *)
(***************************************************************************)
NoModule == <<>>
Dep(path, version, replace) == [path |-> path, version |-> version, replace |-> replace]
Module(path, version) == [path |-> path, version |-> version]

Mods == {Dep("", "Devel", NoModule),
         Dep("a", "v1", NoModule),
         Dep("b", "v1", <<Module("c", "v2")>>)}
DepLists == SeqsOf(Mods, 0, MaxDeps)
CanonDeps == <<Dep("", "Devel", NoModule), Dep("b", "v1", <<Module("c", "v2")>>)>>

\* an error text is a sequence of fragments; nil is the empty text
NilError == <<>>
BiErrs == {<<"unrecognized file format">>,
           <<"a.out: ", "not a Go executable">>,
           <<"read failed">>}
BiOK(deps) == [err |-> NilError, deps |-> deps]
BiErr(text) == [err |-> text, deps |-> <<>>]

(***************************************************************************)
(* The inputs of the model.                                                *)
(***************************************************************************)
NoteSeg(kinds, a) == SegSpec("NOTE", kinds, U64(a), a)
Tails == SeqsOf({KGo, KGnu}, 0, MaxRecs - 1)

\* one well-formed note segment: any first record, then Go and GNU records
FilesWalk ==
  {FileSpec(ElfPrefix(ELFCLASS64, d), TRUE, <<NoteSeg(<<x>> \o t, a)>>, "low") :
     x \in OthKinds \cup NearKinds, t \in Tails, a \in {0, 1, 4, 8}, d \in {1, 2}}

\* one note segment with a lying record, or with a declared alignment its
\* records are not laid out with
FilesAdv ==
  {FileSpec(ElfPrefix(ELFCLASS64, 1), TRUE, <<NoteSeg(<<x>> \o t, a)>>, "low") :
     x \in AdvKinds, t \in Tails, a \in {0, 4}}
  \cup
  {FileSpec(ElfPrefix(ELFCLASS64, 1), TRUE,
          <<SegSpec("NOTE", <<x>> \o t, al, 0)>>, "low") :
     x \in {Kind("oth", 5, 3), Kind("oth", 1, 0)}, t \in Tails,
     al \in {U64(3), U64(8), U64(64), <<0, 0, 0, 32768>>, <<65535, 65535, 65535, 65535>>}}

\* up to MaxSegs segments: note segments of Go and GNU records, a segment of
\* another type holding a Go record, a note segment below 16 bytes, and one
\* that ends with a record of 12 bytes
SegsMulti ==
  {NoteSeg(k, 4) : k \in SeqsOf({KGo, KGnu}, 1, MaxRecs)}
  \cup {SegSpec("LOAD", <<KGo>>, U64(4), 4), NoteSeg(<<Kind("oth", 0, 0)>>, 4),
        NoteSeg(<<KGnu, Kind("oth", 0, 0)>>, 4)}
FilesMulti ==
  {FileSpec(ElfPrefix(ELFCLASS64, 1), TRUE, ss, "low") : ss \in SeqsOf(SegsMulti, 0, MaxSegs)}

\* one segment, placed low in, at the end of, across and beyond the window
FilesPlace ==
  {FileSpec(ElfPrefix(ELFCLASS64, 1), TRUE, <<NoteSeg(k, 4)>>, pl) :
     k \in {<<KGo>>, <<KGnu>>, <<KGnu, KGo>>}, pl \in Places}

\* containers readELF does not walk
FilesArch == {FileSpec(archMagic, TRUE, <<>>, "low"), FileSpec(bigafMagic, TRUE, <<>>, "low")}
FilesFmt ==
  {FileSpec(pePrefix, TRUE, <<>>, "low"),
   FileSpec(ElfPrefix(ELFCLASS32, 1), TRUE, <<NoteSeg(<<KGo>>, 4)>>, "low"),
   FileSpec(ElfPrefix(0, 1), TRUE, <<>>, "low"),
   FileSpec(ElfPrefix(ELFCLASS64, 1), FALSE, <<>>, "low"),
   FileSpec(ElfPrefix(ELFCLASS64, 3), TRUE, <<>>, "low")}

Scenario(entry, f, b) == [entry |-> entry, file |-> f, bi |-> b]

\* buildinfo.Read knows no archive magic: it returns a module list only for
\* the other containers
Scenarios ==
  {Scenario("Parse", f, BiOK(CanonDeps)) :
     f \in FilesWalk \cup FilesAdv \cup FilesMulti}
  \cup {Scenario("Parse", f, BiOK(d)) : f \in FilesPlace \cup FilesFmt, d \in DepLists}
  \cup {Scenario("Parse", f, BiErr(e)) : f \in FilesFmt \cup FilesArch, e \in BiErrs}
  \cup {Scenario("getBuildID", f, BiOK(<<>>)) : f \in FilesArch \cup FilesFmt \cup FilesPlace}

(***************************************************************************)
(* State.                                                                  *)
(***************************************************************************)
VARIABLES
  file,     \* the binary behind the handle r
  entry,    \* the function called: "Parse" or "getBuildID"
  bi,       \* what buildinfo.Read returns on this binary
  pc,       \* the position of the call
  info,     \* info.Deps
  cursor,   \* the read/seek cursor of r
  ops,      \* the operations performed on r, in order
  data,     \* the window buffer: read at offset at, n bytes filled
  ef,       \* the decoded ELF file: byte order and program headers
  segIdx,   \* index of the program header the outer loop is at
  note,     \* the note slice of the inner loop
  filesz,   \* the inner loop's remaining size (uint64)
  off,      \* the inner loop's running file offset (uint64)
  gnu,      \* the GNU build ID remembered so far
  iters,    \* iterations of the inner loop done in this segment
  last,     \* the last advance of the inner loop
  fault,    \* the run-time panic that ended the call, if any
  buildID,  \* getBuildID's result
  gerr,     \* getBuildID's error
  ret       \* Parse's result

vars == <<file, entry, bi, pc, info, cursor, ops, data, ef, segIdx, note,
          filesz, off, gnu, iters, last, fault, buildID, gerr, ret>>

inputs == <<file, entry, bi>>
walk == <<segIdx, note, filesz, off, gnu, iters, last>>

NoAdvance ==
  [n |-> 0, ns |-> U32(0), vs |-> U32(0), off |-> U64(0), align |-> U64(0),
   adv |-> 0, before |-> U64(0), after |-> U64(0)]
Op(op, at, n) == [op |-> op, at |-> at, n |-> n]

Init ==
  /\ \E s \in Scenarios : file = MkFile(s.file) /\ entry = s.entry /\ bi = s.bi
  /\ pc = entry
  /\ info = <<>>
  /\ cursor = 0
  /\ ops = <<>>
  /\ data = [at |-> 0, n |-> 0, zeroed |-> FALSE]
  /\ ef = [order |-> "LE", progs |-> <<>>]
  /\ segIdx = 0
  /\ note = <<>>
  /\ filesz = U64(0)
  /\ off = U64(0)
  /\ gnu = <<>>
  /\ iters = 0
  /\ last = NoAdvance
  /\ fault = "none"
  /\ buildID = <<>>
  /\ gerr = NoErr
  /\ ret = [libs |-> <<>>, err |-> NilError]

(***************************************************************************)
(* The handle and the window buffer.                                       *)
(***************************************************************************)
\* the byte of the file at offset i (from 0)
FileByte(f, i) ==
  IF i < Len(f.prefix) THEN f.prefix[i + 1]
  ELSE IF \E k \in 1..Len(f.progs) :
            f.progs[k].off <= i /\ i < f.progs[k].off + f.progs[k].filesz
       THEN LET k == CHOOSE k \in 1..Len(f.progs) :
                       f.progs[k].off <= i /\ i < f.progs[k].off + f.progs[k].filesz
            IN  f.progs[k].bytes[i - f.progs[k].off + 1]
       ELSE 0

\* n bytes of the file from offset at
HandleBytes(f, at, n) == [k \in 1..n |-> FileByte(f, at + k - 1)]

\* the header fields readELF sets to zero: shoff, flags, shnum
ZeroedOffsets == (40..47) \cup {60, 61}

\* data[j]: the bytes read, zero beyond them
DataByte(d, j) ==
  IF d.zeroed /\ j \in ZeroedOffsets THEN 0
  ELSE IF j < d.n THEN FileByte(file, d.at + j)
  ELSE 0

\* data[lo:hi]
DataSlice(d, lo, hi) == [k \in 1..(hi - lo) |-> DataByte(d, lo + k - 1)]

Min(a, b) == IF a < b THEN a ELSE b

(***************************************************************************)
(* Pure parts of the code.                                                 *)
(***************************************************************************)
\* strings.HasSuffix(err.Error(), s)
HasSuffix(text, s) == text # <<>> /\ text[Len(text)] = s

\* mutant: the error text is compared whole, not by its suffix
convertErrorExact(err) ==
  IF err = <<"unrecognized file format">> THEN <<ErrUnrecognizedExe>>
  ELSE IF err = <<"not a Go executable">> THEN <<ErrNonGoBinary>>
  ELSE err

convertError(err) ==
  IF HasSuffix(err, "unrecognized file format") THEN <<ErrUnrecognizedExe>>
  ELSE IF HasSuffix(err, "not a Go executable") THEN <<ErrNonGoBinary>>
  ELSE err

Library(name, version, id, warnings) ==
  [Name |-> name, Version |-> version, BuildID |-> id, Warnings |-> warnings]

\* mutant: the replacement is ignored
EffectiveModuleNoReplace(dep) == Module(dep.path, dep.version)

\* the module a dependency stands for: its replacement if it has one
EffectiveModule(dep) ==
  IF dep.replace # NoModule THEN dep.replace[1] ELSE Module(dep.path, dep.version)

\* the loop over info.Deps of Parse
RECURSIVE MakeLibs(_, _, _)
MakeLibs(deps, id, warnings) ==
  IF deps = <<>> THEN <<>>
  ELSE LET dep == Head(deps)
           mod == EffectiveModule(dep)
       IN  IF dep.path = ""
           THEN MakeLibs(Tail(deps), id, warnings)
           ELSE <<Library(mod.path, mod.version, id, warnings)>>
                  \o MakeLibs(Tail(deps), id, warnings)

\* warnings = []string{err.Error()} when getBuildID failed
Warnings(e) == IF e # NoErr THEN <<e>> ELSE <<>>

\* elf.NewFile on the window: the header is checked, the program headers
\* are decoded
NewFile(d) ==
  IF \/ DataByte(d, EI_CLASS) \notin {ELFCLASS32, ELFCLASS64}
     \/ DataByte(d, EI_DATA) \notin {1, 2}
     \/ DataByte(d, 6) # 1
     \/ ~file.hdrOK
  THEN [err |-> errBadELF, order |-> "LE", progs |-> <<>>]
  ELSE [err |-> NoErr,
        order |-> IF DataByte(d, EI_DATA) = 1 THEN "LE" ELSE "BE",
        progs |-> [k \in 1..Len(file.progs) |->
                     [type |-> file.progs[k].type, off |-> file.progs[k].off,
                      filesz |-> file.progs[k].filesz,
                      align |-> file.progs[k].align]]]

\* p.Off+p.Filesz < uint64(len(data)); len(data) is readSize whatever was read
InWindow(p) == p.off + p.filesz < readSize

\* (x + 3) &^ 3 in uint32
Align4(x) == AndNot(Add(x, U32(3)), U32(3))

\* mutant: the record header is taken to be 16 bytes
NoteSize16(nameSize, valSize) ==
  Ext64(Add(Add(U32(offsetToNoteData), Align4(nameSize)), Align4(valSize)))

\* uint64(offsetToNoteFields + nameSize + valSize), the sum taken in uint32
NoteSize(nameSize, valSize) ==
  Ext64(Add(Add(U32(offsetToNoteFields), Align4(nameSize)), Align4(valSize)))

\* offsetToNoteData+valSize in uint32
ValueEnd(valSize) == Add(U32(offsetToNoteData), valSize)

\* (off + align - 1) &^ (align - 1) in uint64
AlignedOff(o, align) == AndNot(Sub(Add(o, align), U64(1)), Sub(align, U64(1)))

\* the condition under which a record is taken as a build ID note
IsNote(nt, order, tag, name) ==
  /\ Uint32(SubSeq(nt, 1, 4), order) = U32(sizeOfNoteNameAndValue)
  /\ Leq(ValueEnd(Uint32(SubSeq(nt, 5, 8), order)), U32(Len(nt)))
  /\ Uint32(SubSeq(nt, 9, 12), order) = U32(tag)
  /\ SubSeq(nt, offsetToNoteFields + 1, offsetToNoteFields + sizeOfNoteNameAndValue) = name

\* mutant: a GNU note ends the walk like a Go note
NoteActionGnuReturns(isGo, isGnu) ==
  IF isGo \/ isGnu THEN "return" ELSE "skip"

\* what the walk does with a record: a Go note is returned at once, a GNU
\* note is remembered and the walk goes on
NoteAction(isGo, isGnu) ==
  IF isGo THEN "return" ELSE IF isGnu THEN "remember" ELSE "skip"

IterOut(kind, value, g, nt, fsz, o, ns, vs) ==
  [kind |-> kind, value |-> value, gnu |-> g, note |-> nt, filesz |-> fsz,
   off |-> o, ns |-> ns, vs |-> vs]

\* the rest of an iteration, from the rounding of the sizes on: break when
\* filesz <= notesz, else add the alignment padding and slice the note
StepOver(nt, fsz, o, g, align, ns, vs, notesz0) ==
  LET off1   == Add(o, notesz0)
      aoff   == AlignedOff(off1, align)
      notesz == IF align # U64(0) THEN Add(notesz0, Sub(aoff, off1)) ELSE notesz0
      off2   == IF align # U64(0) THEN aoff ELSE off1
  IN  IF Leq(fsz, notesz0)
      THEN IterOut("break", <<>>, g, nt, fsz, o, ns, vs)
      ELSE IF ~Leq(notesz, U64(Len(nt)))
      THEN IterOut("panic", "advance", g, nt, Sub(fsz, notesz), off2, ns, vs)
      ELSE IterOut("next", <<>>, g, SubSeq(nt, Val(notesz) + 1, Len(nt)),
                   Sub(fsz, notesz), off2, ns, vs)

\* the first half of an iteration: the record is matched, and its value
\* note[16 : 16+valSize] is sliced when it is a note (a panic when the end
\* has wrapped below the start)
Examine(nt, fsz, o, g, align, ns, vs, act) ==
  IF act = "skip"
  THEN StepOver(nt, fsz, o, g, align, ns, vs, NoteSize(ns, vs))
  ELSE IF ~Leq(U32(offsetToNoteData), ValueEnd(vs))
  THEN IterOut("panic", "value", g, nt, fsz, o, ns, vs)
  ELSE IF act = "return"
  THEN IterOut("return", SubSeq(nt, offsetToNoteData + 1, Val(ValueEnd(vs))),
               g, nt, fsz, o, ns, vs)
  ELSE StepOver(nt, fsz, o, SubSeq(nt, offsetToNoteData + 1, Val(ValueEnd(vs))),
                align, ns, vs, NoteSize(ns, vs))

\* one iteration of the inner loop of readELF, entered with filesz >= 16:
\* it returns a Go build ID, panics on a slice out of range, breaks, or
\* advances to the next record
WalkIter(nt, fsz, o, g, p, order) ==
  IF Len(nt) < offsetToNoteData
  THEN IterOut("panic", "header", g, nt, fsz, o, U32(0), U32(0))
  ELSE Examine(nt, fsz, o, g, p.align,
               Uint32(SubSeq(nt, 1, 4), order), Uint32(SubSeq(nt, 5, 8), order),
               NoteAction(IsNote(nt, order, elfGoBuildIDTag, elfGoNote),
                          IsNote(nt, order, gnuBuildIDTag, elfGNUNote)))

(***************************************************************************)
(* Parse, up to the call of getBuildID.                                    *)
(***************************************************************************)
\* buildinfo.Read fails: Parse returns the converted error and no records
BuildinfoFail ==
  /\ pc = "Parse"
  /\ bi.err # NilError
  /\ ret' = [libs |-> <<>>, err |-> convertError(bi.err)]
  /\ pc' = "done"
  /\ UNCHANGED <<inputs, info, cursor, ops, data, ef, walk, fault, buildID, gerr>>

\* buildinfo.Read succeeds: getBuildID is called when there are dependencies
BuildinfoOK ==
  /\ pc = "Parse"
  /\ bi.err = NilError
  /\ info' = bi.deps
  /\ pc' = IF Len(bi.deps) > 0 THEN "getBuildID" ELSE "ret"
  /\ UNCHANGED <<inputs, cursor, ops, data, ef, walk, fault, buildID, gerr, ret>>

(***************************************************************************)
(* getBuildID.                                                             *)
(***************************************************************************)
\* return id, err
Return(id, e) == buildID' = id /\ gerr' = e /\ pc' = "ret"

\* r.ReadAt(buf, 0) fails
PrefixFail ==
  /\ pc = "getBuildID"
  /\ ops' = Append(ops, Op("ReadAt", 0, 8))
  /\ Return(<<>>, errIO)
  /\ UNCHANGED <<inputs, info, cursor, data, ef, walk, fault, ret>>

\* mutant: an archive goes on to the window read like any other prefix
PrefixArchiveProceeds ==
  /\ pc = "getBuildID"
  /\ HandleBytes(file, 0, 8) = archMagic
  /\ ops' = Append(ops, Op("ReadAt", 0, 8))
  /\ pc' = "window"
  /\ UNCHANGED <<inputs, info, cursor, data, ef, walk, fault, buildID, gerr, ret>>

\* the prefix is the archive magic: the block is skipped
PrefixArchive ==
  /\ pc = "getBuildID"
  /\ HandleBytes(file, 0, 8) = archMagic
  /\ ops' = Append(ops, Op("ReadAt", 0, 8))
  /\ Return(<<>>, errProgramNotSupported)
  /\ UNCHANGED <<inputs, info, cursor, data, ef, walk, fault, ret>>

\* the prefix is the big archive magic
PrefixBigArchive ==
  /\ pc = "getBuildID"
  /\ HandleBytes(file, 0, 8) # archMagic
  /\ HandleBytes(file, 0, 8) = bigafMagic
  /\ ops' = Append(ops, Op("ReadAt", 0, 8))
  /\ Return(<<>>, errProgramNotSupported)
  /\ UNCHANGED <<inputs, info, cursor, data, ef, walk, fault, ret>>

\* any other prefix: go on to the window read
PrefixOther ==
  /\ pc = "getBuildID"
  /\ HandleBytes(file, 0, 8) # archMagic
  /\ HandleBytes(file, 0, 8) # bigafMagic
  /\ ops' = Append(ops, Op("ReadAt", 0, 8))
  /\ pc' = "window"
  /\ UNCHANGED <<inputs, info, cursor, data, ef, walk, fault, buildID, gerr, ret>>

\* io.ReadFull(r, data) fails with an error of the handle
WindowFail ==
  /\ pc = "window"
  /\ ops' = Append(ops, Op("Read", cursor, readSize))
  /\ Return(<<>>, errIO)
  /\ UNCHANGED <<inputs, info, cursor, data, ef, walk, fault, ret>>

\* io.ReadFull(r, data): a short read is tolerated, a read of nothing is EOF;
\* then the ELF magic is looked for at the start of the window
WindowRead ==
  /\ pc = "window"
  /\ LET n == Min(readSize, file.len - cursor)
         d == [at |-> cursor, n |-> n, zeroed |-> FALSE]
     IN  /\ ops' = Append(ops, Op("Read", cursor, readSize))
         /\ IF n <= 0
            THEN Return(<<>>, errEOF) /\ UNCHANGED <<cursor, data>>
            ELSE /\ cursor' = cursor + n
                 /\ data' = d
                 /\ IF DataSlice(d, 0, Len(elfPrefix)) = elfPrefix
                    THEN pc' = "readELF" /\ UNCHANGED <<buildID, gerr>>
                    ELSE Return(<<>>, errProgramNotSupported)
  /\ UNCHANGED <<inputs, info, ef, walk, fault, ret>>

(***************************************************************************)
(* readELF: the header and the program headers.                            *)
(***************************************************************************)
Class32 ==
  /\ pc = "readELF"
  /\ DataByte(data, EI_CLASS) = ELFCLASS32
  /\ Return(<<>>, errProgramNotSupported)
  /\ UNCHANGED <<inputs, info, cursor, ops, data, ef, walk, fault, ret>>

\* the section header fields are zeroed for class 64, then elf.NewFile
DecodeELF ==
  /\ pc = "readELF"
  /\ DataByte(data, EI_CLASS) # ELFCLASS32
  /\ LET d == [data EXCEPT !.zeroed = (DataByte(data, EI_CLASS) = ELFCLASS64)]
         f == NewFile(d)
     IN  /\ data' = d
         /\ IF f.err # NoErr
            THEN Return(<<>>, f.err) /\ UNCHANGED <<ef, segIdx, gnu>>
            ELSE /\ ef' = [order |-> f.order, progs |-> f.progs]
                 /\ segIdx' = 1
                 /\ gnu' = <<>>
                 /\ pc' = "progs"
                 /\ UNCHANGED <<buildID, gerr>>
  /\ UNCHANGED <<inputs, info, cursor, ops, note, filesz, off, iters, last, fault, ret>>

AtProg == pc = "progs" /\ segIdx <= Len(ef.progs)
Prog == ef.progs[segIdx]
IsNoteSeg(p) == p.type = "NOTE" /\ p.filesz >= offsetToNoteData

\* the inner loop is entered on the note bytes
StartWalk(bytes) ==
  /\ note' = bytes
  /\ filesz' = U64(Prog.filesz)
  /\ off' = U64(Prog.off)
  /\ iters' = 0
  /\ pc' = "walk"

\* not a note segment, or one below 16 bytes: continue
SkipProg ==
  /\ AtProg
  /\ ~IsNoteSeg(Prog)
  /\ segIdx' = segIdx + 1
  /\ UNCHANGED <<inputs, pc, info, cursor, ops, data, ef, note, filesz, off, gnu,
                 iters, last, fault, buildID, gerr, ret>>

\* the note is a slice of the window
SliceNote ==
  /\ AtProg
  /\ IsNoteSeg(Prog)
  /\ InWindow(Prog)
  /\ StartWalk(DataSlice(data, Prog.off, Prog.off + Prog.filesz))
  /\ UNCHANGED <<inputs, info, cursor, ops, data, ef, segIdx, gnu, last, fault,
                 buildID, gerr, ret>>

\* r.Seek fails
SeekFail ==
  /\ AtProg
  /\ IsNoteSeg(Prog)
  /\ ~InWindow(Prog)
  /\ ops' = Append(ops, Op("Seek", Prog.off, 0))
  /\ Return(<<>>, errIO)
  /\ UNCHANGED <<inputs, info, cursor, data, ef, walk, fault, ret>>

\* r.Seek succeeds and io.ReadFull(r, note) fails with an error of the handle
ReadNoteFail ==
  /\ AtProg
  /\ IsNoteSeg(Prog)
  /\ ~InWindow(Prog)
  /\ ops' = ops \o <<Op("Seek", Prog.off, 0), Op("Read", Prog.off, Prog.filesz)>>
  /\ cursor' = Prog.off
  /\ Return(<<>>, errIO)
  /\ UNCHANGED <<inputs, info, data, ef, walk, fault, ret>>

\* the note is read from the handle at p.Off; a file that ends before
\* p.Off+p.Filesz gives an error
ReadNote ==
  /\ AtProg
  /\ IsNoteSeg(Prog)
  /\ ~InWindow(Prog)
  /\ ops' = ops \o <<Op("Seek", Prog.off, 0), Op("Read", Prog.off, Prog.filesz)>>
  /\ IF Prog.off + Prog.filesz > file.len
     THEN /\ cursor' = IF Prog.off >= file.len THEN Prog.off ELSE file.len
          /\ Return(<<>>, IF Prog.off >= file.len THEN errEOF ELSE errUnexpectedEOF)
          /\ UNCHANGED <<note, filesz, off, iters>>
     ELSE /\ cursor' = Prog.off + Prog.filesz
          /\ StartWalk(HandleBytes(file, Prog.off, Prog.filesz))
          /\ UNCHANGED <<buildID, gerr>>
  /\ UNCHANGED <<inputs, info, data, ef, segIdx, gnu, last, fault, ret>>

\* mutant: the remembered GNU build ID is not used
FinishNoFallback ==
  /\ pc = "progs"
  /\ segIdx > Len(ef.progs)
  /\ Return(<<>>, NoErr)
  /\ UNCHANGED <<inputs, info, cursor, ops, data, ef, walk, fault, ret>>

\* after the last program header: the GNU build ID if there is one
Finish ==
  /\ pc = "progs"
  /\ segIdx > Len(ef.progs)
  /\ IF gnu # <<>> THEN Return(gnu, NoErr) ELSE Return(<<>>, NoErr)
  /\ UNCHANGED <<inputs, info, cursor, ops, data, ef, walk, fault, ret>>

(***************************************************************************)
(* readELF: the walk of the records of one note segment.                   *)
(***************************************************************************)
InWalk == pc = "walk" /\ ~Less(filesz, U64(offsetToNoteData)) /\ iters < MaxIters
Iter == WalkIter(note, filesz, off, gnu, Prog, ef.order)

\* filesz < 16: the segment is done
WalkExit ==
  /\ pc = "walk"
  /\ Less(filesz, U64(offsetToNoteData))
  /\ pc' = "progs"
  /\ segIdx' = segIdx + 1
  /\ UNCHANGED <<inputs, info, cursor, ops, data, ef, note, filesz, off, gnu,
                 iters, last, fault, buildID, gerr, ret>>

\* a Go note: its value is returned at once
ReturnNote(it) == it.kind = "return" /\ Return(it.value, NoErr)

WalkReturn ==
  /\ InWalk
  /\ ReturnNote(Iter)
  /\ UNCHANGED <<inputs, info, cursor, ops, data, ef, walk, fault, ret>>

\* a slice expression out of range: the call panics
PanicAt(it) ==
  /\ it.kind = "panic"
  /\ fault' = it.value
  /\ pc' = "panic"
  /\ gnu' = it.gnu
  /\ filesz' = it.filesz
  /\ off' = it.off

WalkPanic ==
  /\ InWalk
  /\ PanicAt(Iter)
  /\ UNCHANGED <<inputs, info, cursor, ops, data, ef, segIdx, note, iters, last,
                 buildID, gerr, ret>>

\* filesz <= notesz: break
BreakAt(it) ==
  /\ it.kind = "break"
  /\ gnu' = it.gnu
  /\ pc' = "progs"
  /\ segIdx' = segIdx + 1

WalkBreak ==
  /\ InWalk
  /\ BreakAt(Iter)
  /\ UNCHANGED <<inputs, info, cursor, ops, data, ef, note, filesz, off, iters,
                 last, fault, buildID, gerr, ret>>

\* the walk moves on to the next record
AdvanceTo(it, p) ==
  /\ it.kind = "next"
  /\ gnu' = it.gnu
  /\ note' = it.note
  /\ filesz' = it.filesz
  /\ off' = it.off
  /\ iters' = iters + 1
  /\ last' = [n |-> iters + 1, ns |-> it.ns, vs |-> it.vs, off |-> off,
              align |-> p.align, adv |-> Len(note) - Len(it.note),
              before |-> filesz, after |-> it.filesz]

WalkAdvance ==
  /\ InWalk
  /\ AdvanceTo(Iter, Prog)
  /\ UNCHANGED <<inputs, pc, info, cursor, ops, data, ef, segIdx, fault, buildID,
                 gerr, ret>>

(***************************************************************************)
(* The end of the call.                                                    *)
(***************************************************************************)
\* mutant: an error of getBuildID is returned by Parse
AssembleFailing ==
  /\ pc = "ret"
  /\ entry = "Parse"
  /\ ret' = IF gerr # NoErr THEN [libs |-> <<>>, err |-> <<gerr>>]
            ELSE [libs |-> MakeLibs(info, buildID, <<>>), err |-> NilError]
  /\ pc' = "done"
  /\ UNCHANGED <<inputs, info, cursor, ops, data, ef, walk, fault, buildID, gerr>>

\* Parse: the error of getBuildID becomes a warning, the records are built
Assemble ==
  /\ pc = "ret"
  /\ entry = "Parse"
  /\ ret' = [libs |-> MakeLibs(info, buildID, Warnings(gerr)), err |-> NilError]
  /\ pc' = "done"
  /\ UNCHANGED <<inputs, info, cursor, ops, data, ef, walk, fault, buildID, gerr>>

\* getBuildID called on its own has returned
Returned ==
  /\ pc = "ret"
  /\ entry = "getBuildID"
  /\ pc' = "done"
  /\ UNCHANGED <<inputs, info, cursor, ops, data, ef, walk, fault, buildID, gerr, ret>>

Next ==
  \/ BuildinfoFail
  \/ BuildinfoOK
  \/ PrefixFail
  \/ PrefixArchive
  \/ PrefixBigArchive
  \/ PrefixOther
  \/ WindowFail
  \/ WindowRead
  \/ Class32
  \/ DecodeELF
  \/ SkipProg
  \/ SliceNote
  \/ SeekFail
  \/ ReadNoteFail
  \/ ReadNote
  \/ Finish
  \/ WalkExit
  \/ WalkReturn
  \/ WalkPanic
  \/ WalkBreak
  \/ WalkAdvance
  \/ Assemble
  \/ Returned

Spec == Init /\ [][Next]_vars

(***************************************************************************)
(* What the input holds, read off the records the file was built from.     *)
(***************************************************************************)
\* the records, in scan order, of the note segments of at least 16 bytes
RECURSIVE ScannedRecs(_, _)
ScannedRecs(progs, k) ==
  IF k > Len(progs) THEN <<>>
  ELSE (IF progs[k].type = "NOTE" /\ progs[k].filesz >= 16
        THEN progs[k].recs ELSE <<>>) \o ScannedRecs(progs, k + 1)

IsGoRecord(r) == r.ns = U32(4) /\ r.tag = 4 /\ r.name = <<71, 111, 0, 0>>
IsGnuRecord(r) == r.ns = U32(4) /\ r.tag = 3 /\ r.name = <<71, 78, 85, 0>>
GoRecords == SelectSeq(ScannedRecs(file.progs, 1), IsGoRecord)
GnuRecords == SelectSeq(ScannedRecs(file.progs, 1), IsGnuRecord)

\* a 64-bit ELF file that elf.NewFile decodes
ValidElf64 ==
  /\ SubSeq(file.prefix, 1, 4) = <<127, 69, 76, 70>>
  /\ file.prefix[5] = 2
  /\ file.prefix[6] \in {1, 2}
  /\ file.hdrOK
\* every segment holds honest records laid out with its declared alignment
WellFormed == \A k \in 1..Len(file.progs) : file.progs[k].wf
\* an operation on the handle failed
HandleFailed == gerr \in {errIO, errEOF, errUnexpectedEOF}
\* getBuildID was called and has returned
GotResult == pc \in {"ret", "done"} /\ ops # <<>>
\* the walk was cut by the iteration cap of the model
WalkCut == pc = "walk" /\ iters >= MaxIters /\ ~Less(filesz, U64(16))

(***************************************************************************)
(* C1: for a 64-bit ELF file whose note segments hold a Go record (tag 4,  *)
(* name "Go\0\0"), getBuildID returns the value bytes of the first such    *)
(* record and no error, whatever GNU records come before it in the same or *)
(* in an earlier segment (unless an operation on the handle fails).        *)
(***************************************************************************)
C1_GoNoteWins ==
  (ValidElf64 /\ WellFormed /\ GoRecords # <<>>) =>
    /\ pc # "panic"
    /\ ~WalkCut
    /\ (GotResult /\ ~HandleFailed) =>
         (gerr = NoErr /\ buildID = GoRecords[1].val)

\* a GNU record in the first segment was remembered, the Go record of the
\* second segment is the result
C1_Witness ==
  /\ pc = "done"
  /\ entry = "Parse"
  /\ ValidElf64 /\ WellFormed
  /\ Len(file.progs) = 2
  /\ file.progs[1].type = "NOTE"
  /\ \A j \in 1..Len(file.progs[1].recs) : IsGnuRecord(file.progs[1].recs[j])
  /\ gnu = file.progs[1].recs[Len(file.progs[1].recs)].val
  /\ IsGoRecord(file.progs[2].recs[1])
  /\ buildID = file.progs[2].recs[1].val
  /\ gerr = NoErr

(***************************************************************************)
(* C2: when no note segment holds a Go record, readELF returns the value   *)
(* of the last GNU record (tag 3, name "GNU\0") it walked over, and the    *)
(* empty string with a nil error when there is none; with no note at all   *)
(* (also when every note segment is below 16 bytes) the records of Parse   *)
(* carry no warning.                                                       *)
(***************************************************************************)
C2_GnuFallback ==
  (ValidElf64 /\ WellFormed /\ GoRecords = <<>>) =>
    /\ pc # "panic"
    /\ ~WalkCut
    /\ (GotResult /\ ~HandleFailed) =>
         /\ gerr = NoErr
         /\ buildID = IF GnuRecords = <<>> THEN <<>>
                      ELSE GnuRecords[Len(GnuRecords)].val
    /\ (pc = "done" /\ entry = "Parse" /\ ~HandleFailed /\ GnuRecords = <<>>) =>
         \A i \in 1..Len(ret.libs) :
           ret.libs[i].Warnings = <<>> /\ ret.libs[i].BuildID = <<>>

\* two GNU records and no Go record: the last one is the build ID of the
\* emitted records
C2_Witness ==
  /\ pc = "done"
  /\ entry = "Parse"
  /\ ValidElf64 /\ WellFormed
  /\ GoRecords = <<>>
  /\ Len(GnuRecords) >= 2
  /\ ret.libs # <<>>
  /\ ret.libs[1].BuildID = GnuRecords[Len(GnuRecords)].val
  /\ ret.libs[1].Warnings = <<>>

(***************************************************************************)
(* C3 as claimed: for a file whose first 8 bytes are "!<arch>\n",          *)
(* getBuildID goes on to the windowed read and the ELF magic check.        *)
(***************************************************************************)
IsArchive == file.prefix = <<33, 60, 97, 114, 99, 104, 62, 10>>

C3_ArchiveProceeds ==
  (IsArchive /\ GotResult /\ ~HandleFailed) =>
    \E i \in 1..Len(ops) : ops[i].op = "Read"

(***************************************************************************)
(* C3 amended: for a file whose first 8 bytes are "!<arch>\n", getBuildID  *)
(* ends at the prefix comparison: it returns "Program not supported" and   *)
(* an empty build ID, and the 8-byte ReadAt is its only operation on the   *)
(* handle.                                                                 *)
(***************************************************************************)
C3_ArchiveNotSupported ==
  (IsArchive /\ GotResult /\ ~HandleFailed) =>
    /\ gerr = "Program not supported"
    /\ buildID = <<>>
    /\ ops = <<[op |-> "ReadAt", at |-> 0, n |-> 8]>>

C3_Witness ==
  /\ pc = "done"
  /\ IsArchive
  /\ gerr = "Program not supported"
  /\ Len(ops) = 1

(***************************************************************************)
(* C4 as claimed: whenever a stage of Parse classifies the binary as not   *)
(* supported (also when getBuildID or readELF does) or as not a toolchain  *)
(* binary, Parse returns an error and no library records.                  *)
(***************************************************************************)
EndsWith(text, s) == Len(text) > 0 /\ text[Len(text)] = s
KeptDeps == SelectSeq(bi.deps, LAMBDA d : d.path # "")
ParseDone == pc = "done" /\ entry = "Parse"

C4_ClassifiedAborts ==
  (/\ ParseDone
   /\ \/ gerr = "Program not supported"
      \/ EndsWith(bi.err, "unrecognized file format")
      \/ EndsWith(bi.err, "not a Go executable")) =>
    (ret.err # <<>> /\ ret.libs = <<>>)

(***************************************************************************)
(* C4 amended: when buildinfo.Read classifies the binary as an             *)
(* unrecognized format or as not a Go binary, Parse returns                *)
(* ErrUnrecognizedExe or ErrNonGoBinary and no records; when getBuildID or *)
(* readELF answers "Program not supported" (an unrecognized container, a   *)
(* 32-bit ELF class), Parse returns a nil error and every record, each     *)
(* with that message as its warning and an empty BuildID.                  *)
(***************************************************************************)
C4_ReaderErrorsAbort ==
  ParseDone =>
    /\ EndsWith(bi.err, "unrecognized file format") =>
         ret = [libs |-> <<>>, err |-> <<"unrecognized executable format">>]
    /\ EndsWith(bi.err, "not a Go executable") =>
         ret = [libs |-> <<>>, err |-> <<"non go binary">>]
    /\ gerr = "Program not supported" =>
         /\ ret.err = <<>>
         /\ Len(ret.libs) = Len(KeptDeps)
         /\ \A i \in 1..Len(ret.libs) :
              /\ ret.libs[i].Warnings = <<"Program not supported">>
              /\ ret.libs[i].BuildID = <<>>

\* a 32-bit ELF binary with a module list: its records are emitted
C4_Witness ==
  /\ ParseDone
  /\ file.prefix[5] = 1
  /\ gerr = "Program not supported"
  /\ ret.err = <<>>
  /\ Len(ret.libs) = 2

(***************************************************************************)
(* C5: when a read or a seek on the handle fails while getBuildID or       *)
(* readELF resolves the build ID, Parse returns a nil error and the record *)
(* of every module with a non-empty path; each record carries the message  *)
(* of the failure as its one warning, and an empty BuildID.                *)
(***************************************************************************)
C5_HandleFailureIsWarning ==
  (ParseDone /\ HandleFailed) =>
    /\ ret.err = <<>>
    /\ Len(ret.libs) = Len(KeptDeps)
    /\ \A i \in 1..Len(ret.libs) :
         ret.libs[i].Warnings = <<gerr>> /\ ret.libs[i].BuildID = <<>>

\* the read of a note beyond the window failed, two records are emitted
C5_Witness ==
  /\ ParseDone
  /\ HandleFailed
  /\ Len(ops) = 4
  /\ ops[4].op = "Read"
  /\ Len(ret.libs) = 2
  /\ ret.libs[2].Warnings = <<"input/output error">>

(***************************************************************************)
(* C6: the records of Parse are, in the order of the module list, one      *)
(* record for each entry with a non-empty path, with the path and version  *)
(* of the entry's replacement when it has one and of the entry itself      *)
(* otherwise; an entry with an empty path gives no record.                 *)
(***************************************************************************)
C6_RecordsFollowModules ==
  (ParseDone /\ bi.err = <<>>) =>
    /\ Len(ret.libs) = Len(KeptDeps)
    /\ \A i \in 1..Len(ret.libs) :
         IF KeptDeps[i].replace # <<>>
         THEN /\ ret.libs[i].Name = KeptDeps[i].replace[1].path
              /\ ret.libs[i].Version = KeptDeps[i].replace[1].version
         ELSE /\ ret.libs[i].Name = KeptDeps[i].path
              /\ ret.libs[i].Version = KeptDeps[i].version

\* an entry with an empty path and a replaced entry: one record, of the
\* replacement
C6_Witness ==
  /\ ParseDone
  /\ Len(bi.deps) = 2
  /\ bi.deps[1].path = ""
  /\ bi.deps[2].replace # <<>>
  /\ Len(ret.libs) = 1
  /\ ret.libs[1].Name = "c"
  /\ ret.libs[1].Version = "v2"

(***************************************************************************)
(* C7: a note segment that is not fully inside the 32 KiB window is read   *)
(* by a seek to its offset and a read of its size, and gives the same note *)
(* bytes; a segment fully inside the bytes that were buffered is taken     *)
(* from the buffer, with no seek or read on the handle.                    *)
(***************************************************************************)
C7_BufferedNoSeek ==
  (pc = "walk" /\ iters = 0) =>
    LET p == file.progs[segIdx]
    IN  /\ note = p.bytes
        /\ p.off + p.filesz > 32768 =>
             /\ Len(ops) >= 2
             /\ ops[Len(ops) - 1] = [op |-> "Seek", at |-> p.off, n |-> 0]
             /\ ops[Len(ops)] = [op |-> "Read", at |-> p.off, n |-> p.filesz]
        /\ (data.at = 0 /\ p.off + p.filesz <= data.n) =>
             \A i \in 1..Len(ops) : ops[i].op = "ReadAt" \/ ops[i].at = 0

(***************************************************************************)
(* C8 as claimed: after a record with sizes nameSize and valueSize the     *)
(* walk advances by 16 + align4(nameSize) + align4(valueSize) bytes plus   *)
(* the padding that rounds the running file offset up to the alignment of  *)
(* the segment.                                                            *)
(***************************************************************************)
Pow2s == {1, 2, 4, 8, 16, 32, 64, 128, 256}
SmallAdvance ==
  /\ last.n > 0
  /\ last.ns[2] = 0 /\ last.ns[1] < 256
  /\ last.vs[2] = 0 /\ last.vs[1] < 256
  /\ last.align[2] = 0 /\ last.align[3] = 0 /\ last.align[4] = 0
  /\ last.align[1] \in Pow2s \cup {0}
  /\ last.off[2] = 0 /\ last.off[3] = 0 /\ last.off[4] = 0
Up4(x) == ((x + 3) \div 4) * 4
\* the advance for a record header of hdr bytes
AdvanceFor(hdr) ==
  LET size == hdr + Up4(last.ns[1]) + Up4(last.vs[1])
      a    == last.align[1]
      run  == last.off[1] + size
  IN  size + (IF a = 0 THEN 0 ELSE (a - (run % a)) % a)

C8_Advance16 == SmallAdvance => last.adv = AdvanceFor(16)

(***************************************************************************)
(* C8 amended: after a record with sizes nameSize and valueSize (below     *)
(* 256) in a segment whose alignment is zero or a power of two (up to 256) *)
(* the walk, when it goes on, advances by                                  *)
(* 12 + align4(nameSize) + align4(valueSize) bytes plus the padding that   *)
(* rounds the running file offset up to that alignment; so in a segment of *)
(* records laid out that way, with name and value lengths in               *)
(* {0, 1, 3, 4, 5}, the walk is at every iteration at the start of the     *)
(* next record.                                                            *)
(***************************************************************************)
C8_Advance12 ==
  /\ SmallAdvance => last.adv = AdvanceFor(12)
  /\ (pc = "walk" /\ WellFormed /\ iters < Len(file.progs[segIdx].recs)) =>
       LET e == EncRec(file.progs[segIdx].recs[iters + 1], ef.order)
       IN  Len(note) >= Len(e) /\ SubSeq(note, 1, Len(e)) = e

\* a record with a name and a value of one byte in a segment aligned to 8:
\* 20 bytes and 4 bytes of padding, and the walk is at the second record
C8_Witness ==
  /\ pc = "walk"
  /\ WellFormed
  /\ iters = 1
  /\ last.ns = <<1, 0>>
  /\ last.vs = <<1, 0>>
  /\ last.align = <<8, 0, 0, 0>>
  /\ last.adv = 24
  /\ SubSeq(note, 13, 16) = <<71, 111, 0, 0>>

(***************************************************************************)
(* C9: every iteration of the record walk that neither returns nor breaks  *)
(* strictly decreases the remaining byte count (so the walk terminates).   *)
(***************************************************************************)
C9_WalkDecreases == last.n > 0 => Less(last.after, last.before)

(***************************************************************************)
(* C10: at every loop head of the record walk the remaining size is the    *)
(* length of the remaining note slice, and no slice taken in the walk is   *)
(* out of range.                                                           *)
(***************************************************************************)
C10_WalkInRange ==
  /\ pc # "panic"
  /\ pc = "walk" => filesz = U64(Len(note))

====
